---- MODULE Spec2Model ----
(***************************************************************************)
(* convert-certs.js: the certificate-bundle normalizer, as a state machine.*)
(* Text is a sequence of one-character strings, so the regular expressions *)
(* of the script are operators over characters.  The script is one linear  *)
(* run: pc names the statement the run has reached.                        *)
(***************************************************************************)
EXTENDS Integers, Sequences, FiniteSets, TLC

(* ------------------------------ characters ----------------------------- *)

\* The class [A-Za-z0-9+/=] of the script's regular expressions.
B64Alphabet ==
  { "A", "B", "C", "D", "E", "F", "G", "H", "I", "J", "K", "L", "M", "N", "O", "P",
    "Q", "R", "S", "T", "U", "V", "W", "X", "Y", "Z", "a", "b", "c", "d", "e", "f",
    "g", "h", "i", "j", "k", "l", "m", "n", "o", "p", "q", "r", "s", "t", "u", "v",
    "w", "x", "y", "z", "0", "1", "2", "3", "4", "5", "6", "7", "8", "9", "+", "/",
    "=" }

\* The characters \s and String.prototype.trim treat as white space (those used here).
Whitespace == { " ", "\t", "\n", "\r" }

\* The characters the regular expression dot does not match.
LineTerminators == { "\n", "\r" }

UpperLetters ==
  <<"A", "B", "C", "D", "E", "F", "G", "H", "I", "J", "K", "L", "M",
    "N", "O", "P", "Q", "R", "S", "T", "U", "V", "W", "X", "Y", "Z">>

LowerLetters ==
  <<"a", "b", "c", "d", "e", "f", "g", "h", "i", "j", "k", "l", "m",
    "n", "o", "p", "q", "r", "s", "t", "u", "v", "w", "x", "y", "z">>

\* Case folding of the /i flag.
ToLowerChar(c) ==
  IF \E k \in 1..Len(UpperLetters) : UpperLetters[k] = c
  THEN LowerLetters[CHOOSE k \in 1..Len(UpperLetters) : UpperLetters[k] = c]
  ELSE c

ToLower(s) == [k \in 1..Len(s) |-> ToLowerChar(s[k])]

BeginMarker ==
  <<"-", "-", "-", "-", "-", "B", "E", "G", "I", "N", " ", "C", "E", "R", "T",
    "I", "F", "I", "C", "A", "T", "E", "-", "-", "-", "-", "-">>

EndMarker ==
  <<"-", "-", "-", "-", "-", "E", "N", "D", " ", "C", "E", "R", "T",
    "I", "F", "I", "C", "A", "T", "E", "-", "-", "-", "-", "-">>

SubjectPrefix == <<"s", "u", "b", "j", "e", "c", "t", "=">>

IssuerPrefix == <<"i", "s", "s", "u", "e", "r", "=">>

(* --------------------------- string operations ------------------------- *)

MinOf(a, b) == IF a <= b THEN a ELSE b

\* p occurs in s at position k.
OccursAt(s, k, p) ==
  /\ k >= 1
  /\ k + Len(p) - 1 <= Len(s)
  /\ \A j \in 1..Len(p) : s[k + j - 1] = p[j]

\* String.prototype.indexOf from position k (1-based; 0 when p does not occur).
IndexOf(s, p, k) ==
  IF \E q \in k..Len(s) : OccursAt(s, q, p)
  THEN CHOOSE q \in k..Len(s) :
         OccursAt(s, q, p) /\ \A r \in k..(q - 1) : ~OccursAt(s, r, p)
  ELSE 0

\* String.prototype.trim.
Trim(s) ==
  IF \A k \in 1..Len(s) : s[k] \in Whitespace
  THEN << >>
  ELSE LET first == CHOOSE k \in 1..Len(s) :
                      s[k] \notin Whitespace /\ \A j \in 1..(k - 1) : s[j] \in Whitespace
           back  == CHOOSE k \in 0..(Len(s) - 1) :
                      /\ s[Len(s) - k] \notin Whitespace
                      /\ \A j \in 0..(k - 1) : s[Len(s) - j] \in Whitespace
       IN  SubSeq(s, first, Len(s) - back)

\* s.replace(/\r?\n/g, ''): every line feed goes, with the carriage return before it.
RemoveNewlines(s) ==
  LET marked == [k \in 1..Len(s) |->
                   IF \/ s[k] = "\n"
                      \/ (s[k] = "\r" /\ k < Len(s) /\ s[k + 1] = "\n")
                   THEN "" ELSE s[k]]
  IN  SelectSeq(marked, LAMBDA c : c # "")

\* s.replace(/\s+/g, '').
StripWhitespace(s) == SelectSeq(s, LAMBDA c : c \notin Whitespace)

\* s.replace(/[^A-Za-z0-9+/=]/g, '').
StripNonBase64(s) == SelectSeq(s, LAMBDA c : c \in B64Alphabet)

\* s.split(/\r?\n/).
RECURSIVE SplitLines(_)
SplitLines(s) ==
  LET nl == IndexOf(s, <<"\n">>, 1)
  IN  IF nl = 0
      THEN << s >>
      ELSE LET stop == IF nl > 1 /\ s[nl - 1] = "\r" THEN nl - 2 ELSE nl - 1
           IN  << SubSeq(s, 1, stop) >> \o SplitLines(SubSeq(s, nl + 1, Len(s)))

\* lines.join(sep).
RECURSIVE Join(_, _)
Join(lines, sep) ==
  IF Len(lines) = 0 THEN << >>
  ELSE IF Len(lines) = 1 THEN lines[1]
  ELSE lines[1] \o sep \o Join(Tail(lines), sep)

\* lines.map(l => l.trim()).
TrimLines(lines) == [k \in 1..Len(lines) |-> Trim(lines[k])]

(* ------------------------------- encoder ------------------------------- *)

LineWidth == 64

\* str.replace(/(.{1,64})/g, '$1\n'): every maximal run of up to 64 characters
\* other than line terminators is followed by a line feed.
RECURSIVE Wrap64From(_, _)
Wrap64From(str, k) ==
  IF k > Len(str) THEN << >>
  ELSE IF str[k] \in LineTerminators THEN << str[k] >> \o Wrap64From(str, k + 1)
  ELSE LET cap  == MinOf(k + LineWidth - 1, Len(str))
           stop == CHOOSE e \in k..cap :
                     /\ \A j \in k..e : str[j] \notin LineTerminators
                     /\ (e = cap \/ str[e + 1] \in LineTerminators)
       IN  SubSeq(str, k, stop) \o << "\n" >> \o Wrap64From(str, stop + 1)

\* Mutant of wrap64: the final trim is forgotten.
wrap64_NoTrim(str) == Wrap64From(str, 1)

wrap64(str) == Trim(Wrap64From(str, 1))

\* The template literal of the per-certificate loop.
PemOf(cleanedB64) ==
  BeginMarker \o << "\n" >> \o wrap64(cleanedB64) \o << "\n" >> \o EndMarker \o << "\n" >>

(* ------------------------------ extractor ------------------------------ *)

\* raw.matchAll(pemRegex): the capture group of every match, left to right.  The
\* group is lazy and the s flag lets it span lines, so a match runs from a BEGIN
\* marker to the first END marker after it, and the scan resumes after that marker.
RECURSIVE PemRegexGroups(_, _)
PemRegexGroups(text, k) ==
  LET b == IndexOf(text, BeginMarker, k)
      e == IF b = 0 THEN 0 ELSE IndexOf(text, EndMarker, b + Len(BeginMarker))
  IN  IF b = 0 \/ e = 0
      THEN << >>
      ELSE << SubSeq(text, b + Len(BeginMarker), e - 1) >>
             \o PemRegexGroups(text, e + Len(EndMarker))

\* Strategy 1: the groups with line breaks removed, trimmed.
PemScan(text) ==
  LET groups == PemRegexGroups(text, 1)
  IN  [k \in 1..Len(groups) |-> Trim(RemoveNewlines(groups[k]))]

\* /^subject=/i and /^issuer=/i.
StartsWithNoCase(line, prefix) ==
  Len(line) >= Len(prefix) /\ ToLower(SubSeq(line, 1, Len(prefix))) = prefix

\* The text strategy 2 searches: trimmed lines, without the empty ones and the
\* subject=/issuer= ones, joined by line feeds.
CleanedText(text) ==
  Join(SelectSeq(TrimLines(SplitLines(text)),
                 LAMBDA l : /\ l # << >>
                            /\ ~StartsWithNoCase(l, SubjectPrefix)
                            /\ ~StartsWithNoCase(l, IssuerPrefix)),
       << "\n" >>)

MinRun == 200

InRunClass(c) == c \in B64Alphabet \/ c \in Whitespace

\* cleaned.matchAll(base64Regex): the greedy class match takes a whole maximal run
\* of class characters, and matches only when the run has at least MinRun of them.
RECURSIVE Base64RegexGroups(_, _)
Base64RegexGroups(text, k) ==
  IF \A q \in k..Len(text) : ~InRunClass(text[q])
  THEN << >>
  ELSE LET b == CHOOSE q \in k..Len(text) :
                  InRunClass(text[q]) /\ \A r \in k..(q - 1) : ~InRunClass(text[r])
           e == CHOOSE q \in b..Len(text) :
                  /\ \A r \in b..q : InRunClass(text[r])
                  /\ (q = Len(text) \/ ~InRunClass(text[q + 1]))
       IN  (IF e - b + 1 >= MinRun THEN << SubSeq(text, b, e) >> ELSE << >>)
             \o Base64RegexGroups(text, e + 1)

\* Strategy 2.
Base64Scan(text) ==
  LET groups == Base64RegexGroups(CleanedText(text), 1)
  IN  [k \in 1..Len(groups) |-> StripWhitespace(groups[k])]

\* /^-----BEGIN CERTIFICATE-----$/i and /^-----END CERTIFICATE-----$/i.
IsMarkerLine(line, marker) == ToLower(line) = ToLower(marker)

\* /^[A-Za-z0-9+/=]+$/.
IsBase64Line(line) == Len(line) > 0 /\ \A k \in 1..Len(line) : line[k] \in B64Alphabet

\* The for loop of strategy 3 from line k on, with its two locals.
RECURSIVE SalvageLoop(_, _, _, _)
SalvageLoop(lines, k, buffer, potential) ==
  IF k > Len(lines) THEN potential
  ELSE IF IsMarkerLine(lines[k], BeginMarker)
       THEN SalvageLoop(lines, k + 1, << >>, potential)
  ELSE IF IsMarkerLine(lines[k], EndMarker)
       THEN SalvageLoop(lines, k + 1, << >>,
                        IF Len(buffer) > 0
                        THEN Append(potential, StripWhitespace(buffer))
                        ELSE potential)
  ELSE IF IsBase64Line(lines[k])
       THEN SalvageLoop(lines, k + 1, buffer \o lines[k], potential)
  ELSE SalvageLoop(lines, k + 1, buffer, potential)

\* Strategy 3.
LineSalvage(text) == SalvageLoop(TrimLines(SplitLines(text)), 1, << >>, << >>)

(* ------------------------- external certificate reader ----------------- *)

\* An optional value: None is JavaScript's null, Some(v) the value v.
None == << >>

Some(v) == << v >>

\* The lines of openssl's standard output the script looks for; each is None when
\* openssl printed no such line, else the text after the = sign.
NoOutput == [subject |-> None, issuer |-> None, notBefore |-> None, notAfter |-> None]

\* spawnSync's result: error is set when the tool could not be started; a
\* certificate openssl cannot parse gives no error and an empty standard output.
SpawnError == [error |-> TRUE, stdout |-> NoOutput]

ParseFailure == [error |-> FALSE, stdout |-> NoOutput]

Printed(subject, issuer) ==
  [error |-> FALSE,
   stdout |-> [subject |-> subject, issuer |-> issuer,
               notBefore |-> Some(<<"J", "a", "n", " ", "1">>),
               notAfter |-> Some(<<"D", "e", "c", " ", "3", "1", " ">>)]]

\* opensslInspect: null on a spawn error, else the standard output.
opensslInspect(res) == IF res.error THEN None ELSE Some(res.stdout)

\* if (info): null and the empty string are both falsy.
InfoTruthy(info) == info # None /\ info[1] # NoOutput

\* x ? x[1].trim() : null for one of the four regular expression matches.
MatchedField(line) == IF line = None THEN None ELSE Some(Trim(line[1]))

\* One element of meta: the callback of pemFiles.map.
MetaEntry(p, res) ==
  LET info == opensslInspect(res)
      has  == InfoTruthy(info)
  IN  [path      |-> p.path,
       subject   |-> IF has THEN MatchedField(info[1].subject) ELSE None,
       issuer    |-> IF has THEN MatchedField(info[1].issuer) ELSE None,
       notBefore |-> IF has THEN MatchedField(info[1].notBefore) ELSE None,
       notAfter  |-> IF has THEN MatchedField(info[1].notAfter) ELSE None,
       pem       |-> p.pem,
       rawB64    |-> p.rawB64]

(* ------------------------------ classifier ----------------------------- *)

\* JavaScript truthiness of a string-or-null: null and "" are falsy.
Truthy(x) == x # None /\ x[1] # << >>

\* subjectStrings: the truthy subjects.
SubjectStrings(m) == { m[k].subject[1] : k \in { j \in 1..Len(m) : Truthy(m[j].subject) } }

\* The predicate of meta.find.
IsCandidate(m, k) == Truthy(m[k].issuer) /\ m[k].issuer[1] \notin SubjectStrings(m)

\* Mutant of LeafIndexOf: the last candidate is taken instead of the first.
LeafIndexOf_LastCandidate(m) ==
  IF \E k \in 1..Len(m) : IsCandidate(m, k)
  THEN (CHOOSE k \in 1..Len(m) :
          IsCandidate(m, k) /\ \A j \in (k + 1)..Len(m) : ~IsCandidate(m, j)) - 1
  ELSE 0

\* leafIndex (0-based, as in the script): the index of the first candidate, else 0.
LeafIndexOf(m) ==
  IF \E k \in 1..Len(m) : IsCandidate(m, k)
  THEN (CHOOSE k \in 1..Len(m) :
          IsCandidate(m, k) /\ \A j \in 1..(k - 1) : ~IsCandidate(m, j)) - 1
  ELSE 0

\* Mutant of ChainOf: the filter compares a 1-based position with leafIndex.
ChainOf_OneBased(m, leaf) ==
  LET marked == [k \in 1..Len(m) |-> [idx |-> k, cert |-> m[k]]]
      kept   == SelectSeq(marked, LAMBDA x : x.idx # leaf)
  IN  [k \in 1..Len(kept) |-> kept[k].cert]

\* meta.filter((_, idx) => idx !== leafIndex).
ChainOf(m, leaf) ==
  LET marked == [k \in 1..Len(m) |-> [idx |-> k - 1, cert |-> m[k]]]
      kept   == SelectSeq(marked, LAMBDA x : x.idx # leaf)
  IN  [k \in 1..Len(kept) |-> kept[k].cert]

(* ------------------------------ bundle writer -------------------------- *)

CertPath(n) == << "cert", n >>

CertificatePemPath == << "certificate", 0 >>

ChainPemPath == << "certificate_chain", 0 >>

\* One element of pemFiles: the body of matches.forEach for 0-based index i.
PemFileEntry(b64, i) ==
  LET cleanedB64 == StripNonBase64(b64)
  IN  [path |-> CertPath(i + 1), pem |-> PemOf(cleanedB64), rawB64 |-> cleanedB64]

\* The text written to certificate_chain.pem.
ChainText(chain) ==
  IF Len(chain) > 0
  THEN Join([k \in 1..Len(chain) |-> chain[k].pem], << "\n" >>)
  ELSE << >>

\* fs.writeFileSync: a full overwrite.
WriteFile(fs, path, text) == [q \in DOMAIN fs \cup {path} |-> IF q = path THEN text ELSE fs[q]]

NoFiles == [q \in {} |-> << >>]

(* -------------------------------- the run ------------------------------ *)

VARIABLES
  pc,          \* the statement reached
  argc,        \* process.argv.length
  inputFile,   \* the content of the file at inputPath
  raw,         \* const raw
  matches,     \* let matches
  outDir,      \* ./out: "absent" until mkdirSync makes it, then "created"
  files,       \* the files the run has written under ./out, path -> text
  uploadJson,  \* the object serialized to upload-ready.json, None until written
  pemFiles,    \* const pemFiles
  infos,       \* the results of the spawnSync calls so far, in call order
  meta,        \* const meta (the part of the map computed so far)
  leafIndex,   \* let leafIndex
  chainCerts,  \* const chainCerts
  exitCode     \* the process exit status, -1 while running

vars == << pc, argc, inputFile, raw, matches, outDir, files, uploadJson,
           pemFiles, infos, meta, leafIndex, chainCerts, exitCode >>

UsageExit == 2

EmptyExit == 3

\* if (process.argv.length < 3) { ...; process.exit(2) }
UsageCheck ==
  /\ pc = "usage"
  /\ IF argc < 3
     THEN pc' = "exit" /\ exitCode' = UsageExit
     ELSE pc' = "read" /\ exitCode' = exitCode
  /\ UNCHANGED << argc, inputFile, raw, matches, outDir, files, uploadJson,
                  pemFiles, infos, meta, leafIndex, chainCerts >>

\* const raw = fs.readFileSync(inputPath, 'utf8')
ReadInput ==
  /\ pc = "read"
  /\ raw' = inputFile
  /\ pc' = "pem"
  /\ UNCHANGED << argc, inputFile, matches, outDir, files, uploadJson,
                  pemFiles, infos, meta, leafIndex, chainCerts, exitCode >>

\* 1) let matches = Array.from(raw.matchAll(pemRegex)).map(...)
ExtractPem ==
  /\ pc = "pem"
  /\ matches' = PemScan(raw)
  /\ pc' = "base64"
  /\ UNCHANGED << argc, inputFile, raw, outDir, files, uploadJson,
                  pemFiles, infos, meta, leafIndex, chainCerts, exitCode >>

\* Mutant of ExtractBase64: strategy 2 supplements strategy 1 instead of replacing it.
ExtractBase64_Supplements ==
  /\ pc = "base64"
  /\ matches' = matches \o Base64Scan(raw)
  /\ pc' = "salvage"
  /\ UNCHANGED << argc, inputFile, raw, outDir, files, uploadJson,
                  pemFiles, infos, meta, leafIndex, chainCerts, exitCode >>

\* 2) if (matches.length === 0) { ...; matches = base64Matches }
ExtractBase64 ==
  /\ pc = "base64"
  /\ matches' = IF Len(matches) = 0 THEN Base64Scan(raw) ELSE matches
  /\ pc' = "salvage"
  /\ UNCHANGED << argc, inputFile, raw, outDir, files, uploadJson,
                  pemFiles, infos, meta, leafIndex, chainCerts, exitCode >>

\* 3) if (matches.length === 0) { ...; matches = potential }
ExtractSalvage ==
  /\ pc = "salvage"
  /\ matches' = IF Len(matches) = 0 THEN LineSalvage(raw) ELSE matches
  /\ pc' = "empty"
  /\ UNCHANGED << argc, inputFile, raw, outDir, files, uploadJson,
                  pemFiles, infos, meta, leafIndex, chainCerts, exitCode >>

\* Mutant of CheckEmpty: the output directory is made before the check.
CheckEmpty_AfterMkdir ==
  /\ pc = "empty"
  /\ outDir' = "created"
  /\ IF Len(matches) = 0
     THEN pc' = "exit" /\ exitCode' = EmptyExit
     ELSE pc' = "mkdir" /\ exitCode' = exitCode
  /\ UNCHANGED << argc, inputFile, raw, matches, files, uploadJson,
                  pemFiles, infos, meta, leafIndex, chainCerts >>

\* if (matches.length === 0) { ...; process.exit(3) }
CheckEmpty ==
  /\ pc = "empty"
  /\ IF Len(matches) = 0
     THEN pc' = "exit" /\ exitCode' = EmptyExit
     ELSE pc' = "mkdir" /\ exitCode' = exitCode
  /\ UNCHANGED << argc, inputFile, raw, matches, outDir, files, uploadJson,
                  pemFiles, infos, meta, leafIndex, chainCerts >>

\* if (!fs.existsSync(outDir)) fs.mkdirSync(outDir)
MakeOutDir ==
  /\ pc = "mkdir"
  /\ outDir' = IF outDir = "absent" THEN "created" ELSE outDir
  /\ pc' = "certs"
  /\ UNCHANGED << argc, inputFile, raw, matches, files, uploadJson,
                  pemFiles, infos, meta, leafIndex, chainCerts, exitCode >>

\* One iteration of matches.forEach: write cert-<i+1>.pem and push to pemFiles.
WriteCert ==
  /\ pc = "certs"
  /\ LET i     == Len(pemFiles)
         entry == PemFileEntry(matches[i + 1], i)
     IN  /\ files' = WriteFile(files, entry.path, entry.pem)
         /\ pemFiles' = Append(pemFiles, entry)
         /\ pc' = IF i + 1 = Len(matches) THEN "meta" ELSE "certs"
  /\ UNCHANGED << argc, inputFile, raw, matches, outDir, uploadJson,
                  infos, meta, leafIndex, chainCerts, exitCode >>

\* The results the external reader is given to return in a whole run.
ReaderResults ==
  { SpawnError, ParseFailure,
    Printed(Some(<<"A">>), Some(<<"A">>)),
    Printed(Some(<<" ", "B">>), Some(<<"A">>)) }

\* One iteration of pemFiles.map: inspect one certificate with openssl.
InspectWith(results) ==
  /\ pc = "meta"
  /\ \E res \in results :
       /\ infos' = Append(infos, res)
       /\ meta' = Append(meta, MetaEntry(pemFiles[Len(meta) + 1], res))
  /\ pc' = IF Len(meta) + 1 = Len(pemFiles) THEN "classify" ELSE "meta"
  /\ UNCHANGED << argc, inputFile, raw, matches, outDir, files, uploadJson,
                  pemFiles, leafIndex, chainCerts, exitCode >>

\* Mutant of InspectCert: a reader that cannot be started ends the run.
InspectCert_FatalOnError ==
  /\ pc = "meta"
  /\ \E res \in ReaderResults :
       /\ infos' = Append(infos, res)
       /\ meta' = Append(meta, MetaEntry(pemFiles[Len(meta) + 1], res))
       /\ IF res.error
          THEN pc' = "exit" /\ exitCode' = 1
          ELSE /\ pc' = IF Len(meta) + 1 = Len(pemFiles) THEN "classify" ELSE "meta"
               /\ exitCode' = exitCode
  /\ UNCHANGED << argc, inputFile, raw, matches, outDir, files, uploadJson,
                  pemFiles, leafIndex, chainCerts >>

InspectCert == InspectWith(ReaderResults)

\* The try block that picks leafIndex, then const leaf and const chainCerts.
Classify ==
  /\ pc = "classify"
  /\ leafIndex' = LeafIndexOf(meta)
  /\ chainCerts' = ChainOf(meta, leafIndex')
  /\ pc' = "leaf"
  /\ UNCHANGED << argc, inputFile, raw, matches, outDir, files, uploadJson,
                  pemFiles, infos, meta, exitCode >>

\* fs.writeFileSync(certificatePemPath, leaf.pem, 'utf8')
WriteLeaf ==
  /\ pc = "leaf"
  /\ files' = WriteFile(files, CertificatePemPath, meta[leafIndex + 1].pem)
  /\ pc' = "chain"
  /\ UNCHANGED << argc, inputFile, raw, matches, outDir, uploadJson,
                  pemFiles, infos, meta, leafIndex, chainCerts, exitCode >>

\* Both branches of if (chainCerts.length > 0).
WriteChain ==
  /\ pc = "chain"
  /\ files' = WriteFile(files, ChainPemPath, ChainText(chainCerts))
  /\ pc' = "json"
  /\ UNCHANGED << argc, inputFile, raw, matches, outDir, uploadJson,
                  pemFiles, infos, meta, leafIndex, chainCerts, exitCode >>

\* const uploadJson = {...}; fs.writeFileSync(uploadJsonPath, ...); the run then
\* only prints, and ends with status 0.
WriteJson ==
  /\ pc = "json"
  /\ uploadJson' = Some([Certificate      |-> files[CertificatePemPath],
                         CertificateChain |-> files[ChainPemPath]])
  /\ pc' = "done"
  /\ exitCode' = 0
  /\ UNCHANGED << argc, inputFile, raw, matches, outDir, files,
                  pemFiles, infos, meta, leafIndex, chainCerts >>

Next ==
  \/ UsageCheck
  \/ ReadInput
  \/ ExtractPem
  \/ ExtractBase64
  \/ ExtractSalvage
  \/ CheckEmpty
  \/ MakeOutDir
  \/ WriteCert
  \/ InspectCert
  \/ Classify
  \/ WriteLeaf
  \/ WriteChain
  \/ WriteJson

(* ------------------------------ input files ---------------------------- *)

MaxPieces == 3

\* A short base64 line, a base64 run of exactly MinRun characters, and two whole
\* blocks, the second with CRLF line ends and characters outside the alphabet.
ShortBase64 == <<"Q", "U", "J", "D">>

LongBase64 == [k \in 1..MinRun |-> ShortBase64[((k - 1) % Len(ShortBase64)) + 1]]

BlockOne == BeginMarker \o <<"\n">> \o <<"R", "U", "Z", "H">> \o <<"\n">> \o EndMarker \o <<"\n">>

BlockTwo == BeginMarker \o <<"\r", "\n", "S", "#", "E", " ", "p", "L", "\r", "\n">> \o EndMarker

\* The fragments input files are put together from.
Pieces ==
  { BeginMarker, EndMarker, ToLower(EndMarker),
    <<"\n">>, <<"#">>, ShortBase64, LongBase64, BlockOne, BlockTwo }

RECURSIVE Concat(_)
Concat(parts) == IF Len(parts) = 0 THEN << >> ELSE parts[1] \o Concat(Tail(parts))

\* Every text made of at most MaxPieces fragments.
InputFiles == { Concat(parts) : parts \in UNION { [1..n -> Pieces] : n \in 0..MaxPieces } }

Init ==
  /\ pc = "usage"
  /\ \/ argc = 2 /\ inputFile = << >>
     \/ argc = 3 /\ inputFile \in InputFiles
  /\ outDir = "absent"
  /\ raw = << >>
  /\ matches = << >>
  /\ files = NoFiles
  /\ uploadJson = None
  /\ pemFiles = << >>
  /\ infos = << >>
  /\ meta = << >>
  /\ leafIndex = 0
  /\ chainCerts = << >>
  /\ exitCode = -1

Spec == Init /\ [][Next]_vars

(* ---------------------- the classifier on its own ---------------------- *)

MaxCerts == 3

\* What openssl may print after subject= or issuer=: nothing, or a name.
PrintedNames == { << >>, <<"A">>, <<"B">> }

PrintedFields == { None } \cup { Some(n) : n \in PrintedNames }

ClassifierReaderResults ==
  { SpawnError } \cup { Printed(s, i) : s \in PrintedFields, i \in PrintedFields }

\* The n-th certificate payload of a canonical bundle.
PayloadOf(n) == << UpperLetters[n], "w", "=", "=" >>

\* The run at the try block, after a bundle of n canonical blocks was extracted and
\* written and the reader answered infos.
AtClassify(n, answers) ==
  LET payloads == [k \in 1..n |-> PayloadOf(k)]
      entries  == [k \in 1..n |-> PemFileEntry(payloads[k], k - 1)]
  IN  /\ pc = "classify"
      /\ argc = 3
      /\ inputFile = Concat([k \in 1..n |-> entries[k].pem])
      /\ raw = inputFile
      /\ matches = payloads
      /\ outDir = "created"
      /\ files = [q \in { CertPath(k) : k \in 1..n } |-> entries[q[2]].pem]
      /\ uploadJson = None
      /\ pemFiles = entries
      /\ infos = answers
      /\ meta = [k \in 1..n |-> MetaEntry(entries[k], answers[k])]
      /\ leafIndex = 0
      /\ chainCerts = << >>
      /\ exitCode = -1

InitClassify ==
  \E n \in 1..MaxCerts :
    \E answers \in [1..n -> ClassifierReaderResults] : AtClassify(n, answers)

NextClassify == Classify

SpecClassify == InitClassify /\ [][NextClassify]_vars

(* ------------------------ the encoder on its own ----------------------- *)

MaxPayload == 130

\* Payloads over the alphabet: the first n characters of three different strings.
PayloadAlphabet == UpperLetters \o LowerLetters \o <<"0", "1", "2", "3", "4", "5", "6", "7", "8", "9", "+", "/", "=">>

PayloadText(n, step) ==
  [k \in 1..n |-> PayloadAlphabet[((k * step) % Len(PayloadAlphabet)) + 1]]

\* The run at the per-certificate loop with one extracted payload r.
AtEncode(r) ==
  /\ pc = "certs"
  /\ argc = 3
  /\ inputFile = BeginMarker \o r \o EndMarker
  /\ raw = inputFile
  /\ matches = << r >>
  /\ outDir = "created"
  /\ files = NoFiles
  /\ uploadJson = None
  /\ pemFiles = << >>
  /\ infos = << >>
  /\ meta = << >>
  /\ leafIndex = 0
  /\ chainCerts = << >>
  /\ exitCode = -1

InitEncode ==
  \E n \in 1..MaxPayload : \E step \in {1, 7, 11} : AtEncode(PayloadText(n, step))

NextEncode == WriteCert

SpecEncode == InitEncode /\ [][NextEncode]_vars

(* =============================== claims =============================== *)

\* The extraction has run to its end (matches is not assigned afterwards).
Extracted == pc \notin { "usage", "read", "pem", "base64", "salvage" }

\* The loop over the reader is over.
MetaGathered == pc \in { "classify", "leaf", "chain", "json", "done" }

\* leafIndex and chainCerts have been computed.
Classified == pc \in { "leaf", "chain", "json", "done" }

\* C1: the strategies are tried in the order PEM scan, base64 scan, line salvage
\* and the extracted sequence is the output of the first one that yields a result;
\* so an input with at least one BEGIN..END block extracts exactly the bodies of
\* its blocks, in input order, whatever base64-looking text lies outside them.
C1_FirstStrategyWins ==
  pc = "empty" =>
    LET one == PemScan(raw)
        two == Base64Scan(raw)
    IN  /\ Len(PemRegexGroups(raw, 1)) > 0 => matches = one
        /\ (Len(one) = 0 /\ Len(two) > 0) => matches = two
        /\ (Len(one) = 0 /\ Len(two) = 0) => matches = LineSalvage(raw)

\* C1 witness: a block, and outside it a base64 run long enough for strategy 2.
C1_Witness ==
  /\ pc = "empty"
  /\ Len(PemRegexGroups(raw, 1)) = 1
  /\ Len(Base64Scan(raw)) > 0
  /\ matches = << <<"R", "U", "Z", "H">> >>

\* C2: every emitted certificate has a payload that is non-empty after stripping.
C2_EmittedPayloadNonEmpty ==
  \A k \in 1..Len(pemFiles) : Len(pemFiles[k].rawB64) > 0

\* "Present" in the classifier's sense: the reader printed a non-empty string.
Present(x) == x # None /\ x[1] # << >>

\* The 0-based indices whose issuer is present and equals no present subject.
LeafCandidates ==
  { k \in 0..(Len(meta) - 1) :
      /\ Present(meta[k + 1].issuer)
      /\ \A j \in 1..Len(meta) :
           Present(meta[j].subject) => meta[j].subject[1] # meta[k + 1].issuer[1] }

\* C3: the leaf index is the smallest index whose issuer is present and equals no
\* present subject of the sequence, and 0 when there is none; it is always a valid
\* index of the extracted sequence.
C3_LeafIsFirstCandidate ==
  Classified =>
    /\ leafIndex \in 0..(Len(meta) - 1)
    /\ LeafCandidates # {} =>
         leafIndex \in LeafCandidates /\ \A k \in LeafCandidates : leafIndex <= k
    /\ LeafCandidates = {} => leafIndex = 0

\* C3 witness: the leaf is the last of three certificates, after two whose
\* issuers are present and are subjects of the bundle.
C3_Witness ==
  /\ Classified
  /\ Len(meta) = 3
  /\ leafIndex = 2
  /\ Present(meta[1].issuer)
  /\ Present(meta[2].issuer)

\* C4: of two certificates where the second's subject is the first's issuer, the
\* first is the leaf and the chain is the second alone, whatever the second's issuer.
C4_IssuedFirstIsLeaf ==
  ( /\ Classified
    /\ Len(meta) = 2
    /\ Present(meta[1].issuer)
    /\ meta[2].subject = meta[1].issuer )
  => (leafIndex = 0 /\ chainCerts = << meta[2] >>)

\* C5: certificate_chain.pem holds the chain certificates' PEM texts one after the
\* other, with nothing between or after them, and is empty for an empty chain.
C5_ChainFileIsConcatenation ==
  pc \in { "json", "done" } =>
    files[ChainPemPath] = Concat([k \in 1..Len(chainCerts) |-> chainCerts[k].pem])

\* C6: the chain is every certificate but the leaf, in extraction order: N-1
\* entries, the k-th being certificate k before the leaf and k+1 from it on.
C6_ChainIsRestInOrder ==
  Classified =>
    /\ Len(chainCerts) = Len(meta) - 1
    /\ \A k \in 1..Len(chainCerts) :
         LET from == IF k <= leafIndex THEN k ELSE k + 1
         IN  chainCerts[k] = meta[from] /\ chainCerts[k].path = CertPath(from)
    /\ meta[leafIndex + 1].path = CertPath(leafIndex + 1)

\* C6 witness: three certificates, the middle one the leaf.
C6_Witness ==
  /\ Classified
  /\ Len(meta) = 3
  /\ leafIndex = 1
  /\ Len(chainCerts) = 2

\* The lines of a text that ends in a line feed.
LinesOf(text) == SplitLines(SubSeq(text, 1, Len(text) - 1))

\* C7: encode(r) is the header line, lines of exactly 64 characters with only the
\* last allowed to be shorter, the footer line and one trailing line feed, and its
\* body lines joined give back r.
C7_EncodeRoundTrip ==
  (pc = "meta" /\ Len(pemFiles) = 1) =>
    LET r     == matches[1]
        pem   == pemFiles[1].pem
        lines == LinesOf(pem)
        body  == SubSeq(lines, 2, Len(lines) - 1)
    IN  /\ pem[Len(pem)] = "\n"
        /\ pem[Len(pem) - 1] # "\n"
        /\ Len(lines) >= 3
        /\ lines[1] = BeginMarker
        /\ lines[Len(lines)] = EndMarker
        /\ \A k \in 1..(Len(body) - 1) : Len(body[k]) = LineWidth
        /\ Len(body[Len(body)]) \in 1..LineWidth
        /\ Concat(body) = r
        /\ files[CertPath(1)] = pem

\* C7 witness: a payload of more than two full lines.
C7_Witness ==
  /\ pc = "meta"
  /\ Len(pemFiles) = 1
  /\ Len(matches[1]) = 2 * LineWidth + 1

\* C8: a run whose strategies all yield nothing ends with the extraction-empty
\* status, which differs from the usage status and from normal completion, and a
\* run that ends with either failure has written no artifact and made no output
\* directory.
C8_FailuresWriteNothing ==
  /\ UsageExit # EmptyExit /\ UsageExit # 0 /\ EmptyExit # 0
  /\ pc \notin { "exit", "done" } => exitCode = -1
  /\ pc = "done" => exitCode = 0
  /\ (Extracted /\ pc \notin { "empty", "exit" }) => Len(matches) > 0
  /\ pc = "exit" =>
       /\ files = NoFiles /\ uploadJson = None /\ outDir = "absent"
       /\ argc < 3 => exitCode = UsageExit
       /\ argc >= 3 =>
            /\ exitCode = EmptyExit
            /\ Len(PemScan(raw)) = 0
            /\ Len(Base64Scan(raw)) = 0
            /\ Len(LineSalvage(raw)) = 0

\* C8 witness: the empty input file.
C8_Witness == pc = "exit" /\ argc = 3 /\ inputFile = << >> /\ exitCode = EmptyExit

\* The reader failed on a certificate: the tool is missing or printed nothing.
ReaderFailed(res) == res.error \/ res.stdout = NoOutput

\* C9: a reader failure is not fatal.  Whatever calls fail, a failed certificate
\* has subject, issuer, notBefore and notAfter absent, the others have what the
\* reader printed for them, and the run goes on to normal completion with every
\* artifact written.
C9_ReaderFailureNotFatal ==
  /\ pc = "exit" => infos = << >>
  /\ pc \in { "meta", "classify", "leaf", "chain", "json" } => ENABLED Next
  /\ MetaGathered =>
       /\ Len(meta) = Len(matches)
       /\ \A k \in 1..Len(meta) :
            /\ meta[k].pem = pemFiles[k].pem
            /\ IF ReaderFailed(infos[k])
               THEN /\ meta[k].subject = None /\ meta[k].issuer = None
                    /\ meta[k].notBefore = None /\ meta[k].notAfter = None
               ELSE /\ meta[k].subject = MatchedField(infos[k].stdout.subject)
                    /\ meta[k].issuer = MatchedField(infos[k].stdout.issuer)
                    /\ meta[k].notBefore = MatchedField(infos[k].stdout.notBefore)
                    /\ meta[k].notAfter = MatchedField(infos[k].stdout.notAfter)
  /\ pc = "done" =>
       /\ exitCode = 0
       /\ DOMAIN files = { CertPath(k) : k \in 1..Len(matches) }
                           \cup { CertificatePemPath, ChainPemPath }
       /\ uploadJson # None

\* C9 witness: a finished run of two certificates, the reader having failed on
\* the first (tool missing) and answered on the second.
C9_Witness ==
  /\ pc = "done"
  /\ Len(infos) = 2
  /\ infos[1].error
  /\ ~ReaderFailed(infos[2])
  /\ Present(meta[2].subject)

\* Strategy 3 as the claim words it: only a BEGIN line opens a buffer, base64
\* lines go to an open buffer, an END line closes it and emits it when non-empty.
RECURSIVE ClaimedSalvage(_, _, _, _, _)
ClaimedSalvage(lines, k, open, buffer, out) ==
  IF k > Len(lines) THEN out
  ELSE IF IsMarkerLine(lines[k], BeginMarker)
       THEN ClaimedSalvage(lines, k + 1, TRUE, << >>, out)
  ELSE IF IsMarkerLine(lines[k], EndMarker)
       THEN ClaimedSalvage(lines, k + 1, FALSE, << >>,
                           IF open /\ Len(buffer) > 0 THEN Append(out, buffer) ELSE out)
  ELSE IF open /\ IsBase64Line(lines[k])
       THEN ClaimedSalvage(lines, k + 1, open, buffer \o lines[k], out)
  ELSE ClaimedSalvage(lines, k + 1, open, buffer, out)

\* C10: line salvage emits a certificate only when an END line closes a non-empty
\* buffer that a BEGIN line started, made of the base64 lines between the two;
\* base64 lines outside an open buffer are in no certificate, and a buffer open
\* at the end of the input emits nothing.
C10_SalvageNeedsBegin ==
  (pc = "empty" /\ Len(PemScan(raw)) = 0 /\ Len(Base64Scan(raw)) = 0) =>
    matches = ClaimedSalvage(TrimLines(SplitLines(raw)), 1, FALSE, << >>, << >>)

====
